---- MODULE Spec2Model ----
(***************************************************************************)
(* Model of NxCache (packages/nx/src/native/cache/cache.rs): a SQLite      *)
(* index (table cache_outputs) coupled with a directory tree under the     *)
(* cache root.                                                             *)
(*                                                                         *)
(* Names of directory entries are sequences of characters, so that the     *)
(* regular expression of check_cache_fs_in_sync is computed, not assumed.  *)
(* A directory tree is a function from file paths to contents; a           *)
(* directory exists in a tree when some file lives under it.               *)
(* Timestamps are whole days.                                              *)
(***************************************************************************)
EXTENDS Integers, Sequences, FiniteSets, TLC

\* ------------------------------------------------------------------ bounds
\* The clock stops at MaxTime days.
MaxTime == 8

\* Each concurrent caller makes at most CallsPerCaller calls.
CallsPerCaller == 2

\* "DELETE ... WHERE accessed_at < datetime('now', '-7 days')"
TTL == 7

\* ----------------------------------------------------------------- domains
Digits == {"0", "1", "2", "3", "4", "5", "6", "7", "8", "9"}

H1 == <<"1">>
H2 == <<"4", "2">>
\* The hashes the callers use.
Hashes == {H1, H2}

\* A name nobody records, used for entries created by hand in the cache root.
StrayName == <<"7">>

\* "terminalOutputs", the directory new() creates inside the cache root.
TerminalOutputs ==
    <<"t", "e", "r", "m", "i", "n", "a", "l", "O", "u", "t", "p", "u", "t", "s">>

\* Every name that can appear at the top level of the cache root.
Names == Hashes \cup {StrayName, TerminalOutputs}

CachePath == <<"cache">>

\* Workspace-relative file paths and the contents a file can have.
FX == <<"out", "x">>
FY == <<"out", "y">>
FilePaths == {FX, FY}
Contents == {"v1", "v2"}
NoFile == "<absent>"

\* The declared outputs a caller may pass (Vec<String>): a directory, a file.
OutputChoices == { << <<"out">> >>, << FX >> }

Texts == {"ok", "err"}
NoBlob == "<missing>"
Codes == {0, 1}

\* The concurrent callers.
Callers == {"a", "b"}

\* Steps of the clock, in days: to the last day an entry is kept, and past it.
TickSteps == {TTL, TTL + 1}

\* ------------------------------------------------------------------- trees
EmptyTree == [f \in FilePaths |-> NoFile]

IsPrefix(p, f) == Len(p) <= Len(f) /\ \A i \in 1..Len(p) : p[i] = f[i]

\* Path::exists for a path p relative to the root of tree.
Exists(tree, p) == \E f \in FilePaths : IsPrefix(p, f) /\ tree[f] # NoFile

NoEntry == [kind |-> "none", tree |-> EmptyTree]
FileEntry == [kind |-> "file", tree |-> EmptyTree]
EmptyDir == [kind |-> "dir", tree |-> EmptyTree]

NoRow == [present |-> FALSE, code |-> 0, created_at |-> 0, accessed_at |-> 0]

\* Mutant: every name counts as a hash.
IsMatchAny(name) == TRUE

\* Hash regex ^\d+$
IsMatch(name) == Len(name) >= 1 /\ \A i \in 1..Len(name) : name[i] \in Digits

\* self.cache_path.join(&hash)
TaskDir(hash) == Append(CachePath, hash)

\* self.cache_path.join("terminalOutputs").join(hash)
GetTaskOutputsPathInternal(hash) == Append(Append(CachePath, TerminalOutputs), hash)

VARIABLES
    db,      \* cache_outputs: hash -> row
    root,    \* top-level entries of the cache root: name -> entry
    blobs,   \* terminalOutputs/<hash>: text or NoBlob
    ws,      \* the workspace tree
    now,     \* CURRENT_TIMESTAMP, in days
    last,    \* the last call of the single caller and what it returned
    calls    \* the call each concurrent caller is in, and where in it

vars == <<db, root, blobs, ws, now, last, calls>>

\* ---------------------------------------------------------- filesystem steps
\* Mutant: the entry is left in place.
RemoveItemSkipped(rt, name) == rt

\* fs_extra::remove_items on one top-level entry of the cache root: a
\* directory is removed with everything in it, a file is unlinked, a missing
\* entry is tolerated.
RemoveItem(rt, name) == [rt EXCEPT ![name] = NoEntry]

\* Mutant: no directory is made.
CreateDirAllSkipped(rt, name) == rt

\* std::fs::create_dir_all(&task_dir): an existing directory is left as it is.
CreateDirAll(rt, name) ==
    IF rt[name].kind = "dir" THEN rt ELSE [rt EXCEPT ![name] = EmptyDir]

\* create_dir_all fails when the path is a regular file.
CreateDirAllFails(rt, name) == rt[name].kind = "file"

\* Mutant: the terminal output is not written.
WriteBlobSkipped(bl, hash, text) == bl

\* std::fs::write(self.get_task_outputs_path_internal(&hash), terminal_output)
WriteBlob(bl, hash, text) == [bl EXCEPT ![hash] = text]

\* Mutant: no default for a blob that cannot be read.
ReadBlobNoDefault(bl, hash, readable) == bl[hash]

\* read_to_string(terminal_output_path).unwrap_or(String::from(""))
ReadBlob(bl, hash, readable) ==
    IF bl[hash] # NoBlob /\ readable THEN bl[hash] ELSE ""

\* _expand_outputs(root, outputs): the declared outputs that exist under root,
\* in the order they were declared.
ExpandOutputs(tree, outs) == SelectSeq(outs, LAMBDA p : Exists(tree, p))

\* _copy(src/p, dst/p) restricted to the files in done: every file of the
\* source under p that is in done is written over the destination.
CopyFiles(dst, src, p, done) ==
    [f \in FilePaths |->
        IF IsPrefix(p, f) /\ src[f] # NoFile /\ f \in done THEN src[f] ELSE dst[f]]

\* _copy(src/p, dst/p): the whole file or directory tree.
Copy(dst, src, p) == CopyFiles(dst, src, p, FilePaths)

\* Mutant: the loop copies nothing.
CopyOutputSkipped(tree, src, p) == tree

\* One turn of put's loop: "if p.exists() { _copy(p, task_dir.join(p)) }".
CopyOutput(tree, src, p) == IF Exists(src, p) THEN Copy(tree, src, p) ELSE tree

\* The first k turns of put's loop over the expanded outputs.
RECURSIVE CopyOutputs(_, _, _, _)
CopyOutputs(tree, src, ex, k) ==
    IF k = 0 THEN tree
    ELSE CopyOutput(CopyOutputs(tree, src, ex, k - 1), src, ex[k])

\* Mutant: the workspace is not cleared before the copy.
RemovePathsSkipped(tree, ps) == tree

\* remove_items on workspace_root.join(p) for every expanded output p.
RemovePaths(tree, ps) ==
    [f \in FilePaths |->
        IF \E i \in 1..Len(ps) : IsPrefix(ps[i], f) THEN NoFile ELSE tree[f]]

\* --------------------------------------------------------------- index steps
\* INSERT INTO cache_outputs (hash, code): created_at and accessed_at default
\* to CURRENT_TIMESTAMP.
InsertRow(d, hash, code, t) ==
    [d EXCEPT ![hash] =
        [present |-> TRUE, code |-> code, created_at |-> t, accessed_at |-> t]]

\* Mutant: INSERT OR REPLACE, an upsert.
InsertNeverFails(d, hash) == FALSE

\* hash is the PRIMARY KEY: the insert fails when a row exists.
InsertFails(d, hash) == d[hash].present

\* Mutant: the UPDATE sets created_at as well.
TouchRowAndCreation(d, hash, t) ==
    [d EXCEPT ![hash].accessed_at = t, ![hash].created_at = t]

\* Mutant: the UPDATE has no WHERE clause.
TouchEveryRow(d, hash, t) ==
    [h \in Hashes |-> IF d[h].present THEN [d[h] EXCEPT !.accessed_at = t] ELSE d[h]]

\* UPDATE cache_outputs SET accessed_at = CURRENT_TIMESTAMP WHERE hash = ?1
TouchRow(d, hash, t) == [d EXCEPT ![hash].accessed_at = t]

\* Mutant: the sweep compares the creation time.
IsStaleByCreation(row, t) == row.present /\ row.created_at < t - TTL

\* WHERE accessed_at < datetime('now', '-7 days')
IsStale(row, t) == row.present /\ row.accessed_at < t - TTL

StaleHashes(d, t) == {h \in Hashes : IsStale(d[h], t)}

\* Mutant: the rows are left in the index.
DeleteStaleSkipped(d, t) == d

\* DELETE FROM cache_outputs WHERE ... RETURNING hash
DeleteStale(d, t) == [h \in Hashes |-> IF IsStale(d[h], t) THEN NoRow ELSE d[h]]

\* SELECT COUNT(*) FROM cache_outputs
CountRows(d) == Cardinality({h \in Hashes : d[h].present})

\* The entries check_cache_fs_in_sync counts: directories whose name is a
\* hash; an entry that cannot be read (in bad) is filtered out.
CountEntries(rt, bad) ==
    Cardinality({n \in Names : n \notin bad /\ rt[n].kind = "dir" /\ IsMatch(n)})

\* ------------------------------------------------------------ return values
NoneResult ==
    [some |-> FALSE, code |-> 0, terminal_output |-> "", outputs_path |-> <<>>]

\* CachedResult { code, terminal_output, outputs_path }
CachedResult(code, text, path) ==
    [some |-> TRUE, code |-> code, terminal_output |-> text, outputs_path |-> path]

\* The record of a call: its name, the hash it was given, whether it returned
\* Ok or Err, and what it returned (res: get's Option<CachedResult>; sync:
\* check_cache_fs_in_sync's bool; evicted: the hashes the sweep's DELETE
\* returned).
Call(op, hash, status) ==
    [op |-> op, hash |-> hash, status |-> status,
     res |-> NoneResult, sync |-> FALSE, evicted |-> {}]

\* ------------------------------------------------------------------- new()
\* create_dir_all(cache_path), create_dir_all(cache_path/terminalOutputs),
\* setup(): CREATE TABLE IF NOT EXISTS cache_outputs.
\* A caller that is in no call: op, hash, code and status are those of the
\* call it returned from last, n counts the calls it has made, and seen is
\* what was at outputs_path when its get returned (kept for the properties:
\* get itself does not look there).
IdleFrame ==
    [pc |-> "idle", op |-> "none", hash |-> <<>>, text |-> "", outs |-> <<>>,
     code |-> 0, ex |-> <<>>, i |-> 0, status |-> "none", res |-> NoneResult, n |-> 0,
     seen |-> NoEntry]

InitWith(w) ==
    /\ db = [h \in Hashes |-> NoRow]
    /\ root = [n \in Names |-> IF n = TerminalOutputs THEN EmptyDir ELSE NoEntry]
    /\ blobs = [h \in Hashes |-> NoBlob]
    /\ ws = w
    /\ now = 0
    /\ last = Call("new", <<>>, "ok")
    /\ calls = [p \in Callers |-> IdleFrame]

Init == InitWith(EmptyTree)

\* -------------------------------------------------------------------- get
\* get(hash). fault "index": the UPDATE fails; fault "read": the row exists
\* and the blob cannot be read.
GetResult(d, bl, hash, fault) ==
    IF d[hash].present
    THEN CachedResult(d[hash].code, ReadBlob(bl, hash, fault # "read"), TaskDir(hash))
    ELSE NoneResult

GetF(hash, fault) ==
    /\ fault = "read" => db[hash].present
    /\ last' = [Call("get", hash, IF fault = "index" THEN "err" ELSE "ok")
                EXCEPT !.res = IF fault = "index" THEN NoneResult
                               ELSE GetResult(db, blobs, hash, fault)]
    /\ db' = IF fault # "index" /\ db[hash].present
             THEN TouchRow(db, hash, now) ELSE db
    /\ UNCHANGED <<root, blobs, ws, now, calls>>

Get(hash) == \E fault \in {"none", "index", "read"} : GetF(hash, fault)

\* -------------------------------------------------------------------- put
PutFaults == {"none", "remove", "create", "write", "expand", "copy", "index"}

\* The artifact directory after put's loop stopped in turn k having copied
\* only the files in done of that turn's output (k = Len(ex) + 1: the loop
\* ran to its end).
PutTree(tree, src, ex, k, done) ==
    IF k > Len(ex) THEN CopyOutputs(tree, src, ex, Len(ex))
    ELSE CopyFiles(CopyOutputs(tree, src, ex, k - 1), src, ex[k], done)

\* self.record_to_cache(hash, code)
RecordFails(d, hash, fault) == fault = "index" \/ InsertFails(d, hash)

RecordToCache(d, hash, code, t, fault) ==
    IF RecordFails(d, hash, fault) THEN d ELSE InsertRow(d, hash, code, t)

\* put(hash, terminal_output, outputs, code), stopped by fault at the step
\* of that name ("none": no I/O fault). Each step runs only when the steps
\* before it succeeded.
PutRoot(rt, src, hash, outs, fault, k, done) ==
    LET r1 == RemoveItem(rt, hash)
        r2 == CreateDirAll(r1, hash)
        ex == ExpandOutputs(src, outs)
    IN  CASE fault = "remove" -> rt
          [] fault = "create" -> r1
          [] fault \in {"write", "expand"} -> r2
          [] fault = "copy" -> [r2 EXCEPT ![hash].tree = PutTree(@, src, ex, k, done)]
          [] OTHER -> [r2 EXCEPT ![hash].tree = PutTree(@, src, ex, Len(ex) + 1, {})]

PutBlobs(bl, hash, text, fault) ==
    IF fault \in {"remove", "create", "write"} THEN bl ELSE WriteBlob(bl, hash, text)

\* Mutant: the row is inserted whatever became of the filesystem steps.
PutDbRecordsAnyway(d, hash, code, t, fault) ==
    RecordToCache(d, hash, code, t, IF fault = "index" THEN "index" ELSE "none")

\* The index after put: record_to_cache runs only when every statement
\* before it returned Ok.
PutDb(d, hash, code, t, fault) ==
    IF fault \in {"none", "index"} THEN RecordToCache(d, hash, code, t, fault) ELSE d

PutStatus(d, hash, fault) ==
    IF fault = "none" /\ ~InsertFails(d, hash) THEN "ok" ELSE "err"

PutF(hash, text, outs, code, fault) ==
    /\ last' = Call("put", hash, PutStatus(db, hash, fault))
    /\ db' = PutDb(db, hash, code, now, fault)
    /\ blobs' = PutBlobs(blobs, hash, text, fault)
    /\ fault = "remove" => root[hash].kind # "none"
    /\ IF fault = "copy"
       THEN \* a copy fails in turn k having copied less than that turn's output
            LET ex == ExpandOutputs(ws, outs) IN
            \E k \in 1..Len(ex), done \in SUBSET FilePaths :
                /\ done \subseteq {f \in FilePaths : IsPrefix(ex[k], f) /\ ws[f] # NoFile}
                /\ done # {f \in FilePaths : IsPrefix(ex[k], f) /\ ws[f] # NoFile}
                /\ root' = PutRoot(root, ws, hash, outs, fault, k, done)
       ELSE root' = PutRoot(root, ws, hash, outs, fault, 0, {})
    /\ UNCHANGED <<ws, now, calls>>

Put(hash, text, outs, code) == \E fault \in PutFaults : PutF(hash, text, outs, code, fault)

\* ------------------------------------------------- apply_remote_cache_results
ApplyF(hash, result, fault) ==
    /\ last' = Call("apply", hash, PutStatus(db, hash, fault))
    /\ db' = PutDb(db, hash, result.code, now, fault)
    /\ blobs' = IF fault = "write" THEN blobs
                ELSE WriteBlob(blobs, hash, result.terminal_output)
    /\ UNCHANGED <<root, ws, now, calls>>

ApplyRemoteCacheResults(hash, result) ==
    \E fault \in {"none", "write", "index"} : ApplyF(hash, result, fault)

\* ------------------------------------------------------ copy_files_from_cache
\* The top-level entry of the cache root that a path names.
EntryAt(rt, path) ==
    IF \E n \in Names : TaskDir(n) = path /\ rt[n].kind = "dir"
    THEN rt[CHOOSE n \in Names : TaskDir(n) = path].tree
    ELSE EmptyTree

IsDirAt(rt, path) == \E n \in Names : TaskDir(n) = path /\ rt[n].kind = "dir"

\* The workspace after copy_files_from_cache stopped by fault; a failed
\* copy has written only the files in done.
RestoreWs(w, rt, result, outs, fault, done) ==
    LET cached == EntryAt(rt, result.outputs_path)
        ex == ExpandOutputs(cached, outs)
        w1 == RemovePaths(w, ex)
    IN  CASE fault \in {"expand", "remove"} -> w
          [] fault = "copy" -> CopyFiles(w1, cached, <<>>, done)
          [] OTHER -> IF IsDirAt(rt, result.outputs_path)
                      THEN Copy(w1, cached, <<>>) ELSE w1

\* _copy fails when outputs_path is no directory.
RestoreStatus(rt, result, fault) ==
    IF fault = "none" /\ IsDirAt(rt, result.outputs_path) THEN "ok" ELSE "err"

RestoreF(result, outs, fault) ==
    /\ last' = Call("restore", <<>>, RestoreStatus(root, result, fault))
    /\ \E done \in SUBSET FilePaths :
          LET cached == EntryAt(root, result.outputs_path) IN
          /\ fault = "remove" => ExpandOutputs(cached, outs) # <<>>
          /\ IF fault = "copy"
             THEN /\ done \subseteq {f \in FilePaths : cached[f] # NoFile}
                  /\ done # {f \in FilePaths : cached[f] # NoFile}
             ELSE done = {}
          /\ ws' = RestoreWs(ws, root, result, outs, fault, done)
    /\ UNCHANGED <<db, root, blobs, now, calls>>

CopyFilesFromCache(result, outs) ==
    \E fault \in {"none", "expand", "remove", "copy"} : RestoreF(result, outs, fault)

\* --------------------------------------------------- remove_old_cache_records
\* The orders in which RETURNING may yield the deleted hashes.
Orders(S) ==
    {o \in [1..Cardinality(S) -> S] : \A i, j \in 1..Cardinality(S) : o[i] = o[j] => i = j}

\* vec![cache_path.join(hash), get_task_outputs_path_internal(hash)], flattened:
\* item 2j-1 is the artifact directory of order[j], item 2j its blob.
ItemHash(order, i) == order[(i + 1) \div 2]
ItemIsDir(i) == i % 2 = 1

ItemExists(rt, bl, order, i) ==
    IF ItemIsDir(i) THEN rt[ItemHash(order, i)].kind # "none"
    ELSE bl[ItemHash(order, i)] # NoBlob

\* remove_items(&outdated_cache) having removed the first k items.
SweepRoot(rt, order, k) ==
    [n \in Names |->
        IF \E i \in 1..k : ItemIsDir(i) /\ ItemHash(order, i) = n
        THEN NoEntry ELSE rt[n]]

\* Mutant: the sweep forgets the terminal output blobs.
SweepBlobsKept(bl, order, k) == bl

SweepBlobs(bl, order, k) ==
    [h \in Hashes |->
        IF \E i \in 1..k : ~ItemIsDir(i) /\ ItemHash(order, i) = h
        THEN NoBlob ELSE bl[h]]

\* fault "prepare": the statement cannot be prepared, the error is returned.
\* fault "step": the DELETE fails when it is stepped; filter_map(Result::ok)
\* drops the error and the sweep goes on with no hash.
\* fault "remove": remove_items fails on item failAt.
SweepF(fault) ==
    \E order \in Orders(StaleHashes(db, now)), failAt \in 0..(2 * Cardinality(Hashes)) :
        LET deleted == fault \in {"none", "remove"}
            k == IF fault = "remove" THEN failAt - 1 ELSE 2 * Len(order)
        IN
        /\ IF fault = "remove"
           THEN /\ 1 <= failAt /\ failAt <= 2 * Len(order)
                /\ ItemExists(root, blobs, order, failAt)
           ELSE failAt = 0
        /\ db' = IF deleted THEN DeleteStale(db, now) ELSE db
        /\ root' = IF deleted THEN SweepRoot(root, order, k) ELSE root
        /\ blobs' = IF deleted THEN SweepBlobs(blobs, order, k) ELSE blobs
        /\ last' = [Call("sweep", <<>>,
                         IF fault \in {"prepare", "remove"} THEN "err" ELSE "ok")
                    EXCEPT !.evicted = IF deleted THEN StaleHashes(db, now) ELSE {}]
        /\ UNCHANGED <<ws, now, calls>>

RemoveOldCacheRecords == \E fault \in {"none", "prepare", "step", "remove"} : SweepF(fault)

\* ----------------------------------------------------- check_cache_fs_in_sync
\* fault "index": SELECT COUNT(*) fails; fault "read_dir": the cache root
\* cannot be listed; fault "entry": the entry bad, or its file type, cannot
\* be read and the filter drops it.
SyncResult(d, rt, bad) == CountRows(d) = CountEntries(rt, bad)

CheckF(fault) ==
    \E bad \in Names :
        /\ IF fault = "entry" THEN root[bad].kind # "none" ELSE bad = TerminalOutputs
        /\ last' = [Call("check", <<>>,
                         IF fault \in {"index", "read_dir"} THEN "err" ELSE "ok")
                    EXCEPT !.sync = /\ fault \notin {"index", "read_dir"}
                                    /\ SyncResult(db, root,
                                                  IF fault = "entry" THEN {bad} ELSE {})]
        /\ UNCHANGED <<db, root, blobs, ws, now, calls>>

CheckCacheFsInSync == \E fault \in {"none", "index", "read_dir", "entry"} : CheckF(fault)

\* ------------------------------------------------------------ the environment
Env(what) == Call(what, <<>>, "ok")

\* Days pass between calls: a call takes no time on this scale.
Tick(d) ==
    /\ now + d <= MaxTime
    /\ \A p \in Callers : calls[p].pc = "idle"
    /\ now' = now + d
    /\ last' = Env("tick")
    /\ UNCHANGED <<db, root, blobs, ws, calls>>

\* A task writes or deletes an output in the workspace.
WriteWorkspace(f, v) ==
    /\ ws[f] # v
    /\ ws' = [ws EXCEPT ![f] = v]
    /\ last' = Env("write")
    /\ UNCHANGED <<db, root, blobs, now, calls>>

\* Somebody creates an entry in the cache root by hand.
CreateStray(kind) ==
    /\ root[StrayName].kind = "none"
    /\ root' = [root EXCEPT ![StrayName] = IF kind = "dir" THEN EmptyDir ELSE FileEntry]
    /\ last' = Env("mkstray")
    /\ UNCHANGED <<db, blobs, ws, now, calls>>

RemoveStray ==
    /\ root[StrayName].kind # "none"
    /\ root' = RemoveItem(root, StrayName)
    /\ last' = Env("rmstray")
    /\ UNCHANGED <<db, blobs, ws, now, calls>>

\* ------------------------------------------------------------ specification
\* The six operations of NxCache, called on the hashes hs with the texts ts,
\* the declared outputs os and the exit codes cs.
Engine(hs, ts, os, cs) ==
    \/ \E h \in hs : Get(h)
    \/ \E h \in hs, t \in ts, o \in os, c \in cs : Put(h, t, o, c)
    \/ \E h \in hs, t \in ts, c \in cs :
          ApplyRemoteCacheResults(h, CachedResult(c, t, TaskDir(h)))
    \/ \E h \in hs, o \in os :
          CopyFilesFromCache(CachedResult(0, "", TaskDir(h)), o)
    \/ RemoveOldCacheRecords
    \/ CheckCacheFsInSync

\* One caller and one hash, with the contents of its files: every call runs
\* to its end before the next one starts.
Next ==
    \/ Engine({H1}, Texts, OutputChoices, Codes)
    \/ Tick(TTL + 1)
    \/ \E f \in FilePaths, v \in Contents \cup {NoFile} : WriteWorkspace(f, v)

Spec == Init /\ [][Next]_vars

\* One caller and every hash, with an empty workspace: the index and the
\* entries of the cache root.
NextMany ==
    \/ Engine(Hashes, {"ok"}, { << <<"out">> >> }, Codes)
    \/ \E d \in TickSteps : Tick(d)
    \/ \E kind \in {"dir", "file"} : CreateStray(kind)
    \/ RemoveStray

SpecMany == Init /\ [][NextMany]_vars

\* One caller and every hash, no I/O fault and nobody else in the cache root:
\* every call runs to its end and fails only where its own logic fails.
NextClean ==
    \/ \E h \in Hashes : GetF(h, "none")
    \/ \E h \in Hashes, c \in Codes : PutF(h, "ok", << <<"out">> >>, c, "none")
    \/ \E h \in Hashes, c \in Codes :
          ApplyF(h, CachedResult(c, "ok", TaskDir(h)), "none")
    \/ SweepF("none")
    \/ CheckF("none")
    \/ \E d \in TickSteps : Tick(d)

SpecClean == Init /\ [][NextClean]_vars

\* ---------------------------------------------------------- concurrent callers
\* Several callers share the cache root and the index. A statement of the
\* index and an operation on one path of the filesystem are atomic; nothing
\* else is: a call is a sequence of such steps and the steps of the callers
\* interleave. No I/O fault is injected here.
Frame(p) == calls[p]

Proceed(p, pc) == calls' = [calls EXCEPT ![p].pc = pc]

\* The call returns: the caller keeps what it asked and what it got.
Finish(fr, status) == [fr EXCEPT !.pc = "idle", !.status = status, !.ex = <<>>, !.i = 0]

\* put is called and runs its first statement, remove_items(&[&task_dir]).
PutRemove(p, hash, text, outs, code) ==
    /\ Frame(p).pc = "idle" /\ Frame(p).n < CallsPerCaller
    /\ root' = RemoveItem(root, hash)
    /\ calls' = [calls EXCEPT ![p] =
          [IdleFrame EXCEPT !.pc = "create", !.op = "put", !.hash = hash, !.text = text,
                            !.outs = outs, !.code = code, !.status = "running",
                            !.n = Frame(p).n + 1]]
    /\ UNCHANGED <<db, blobs, ws, now, last>>

\* create_dir_all(&task_dir)?
PutCreate(p) ==
    /\ Frame(p).pc = "create"
    /\ root' = IF CreateDirAllFails(root, Frame(p).hash) THEN root
               ELSE CreateDirAll(root, Frame(p).hash)
    /\ calls' = [calls EXCEPT ![p] =
          IF CreateDirAllFails(root, Frame(p).hash) THEN Finish(@, "err")
          ELSE [@ EXCEPT !.pc = "write"]]
    /\ UNCHANGED <<db, blobs, ws, now, last>>

\* write(self.get_task_outputs_path_internal(&hash), terminal_output)?
PutWrite(p) ==
    /\ Frame(p).pc = "write"
    /\ blobs' = WriteBlob(blobs, Frame(p).hash, Frame(p).text)
    /\ Proceed(p, "expand")
    /\ UNCHANGED <<db, root, ws, now, last>>

\* let expanded_outputs = _expand_outputs(&self.workspace_root, outputs)?
PutExpand(p) ==
    /\ Frame(p).pc = "expand"
    /\ LET ex == ExpandOutputs(ws, Frame(p).outs) IN
       calls' = [calls EXCEPT ![p].ex = ex, ![p].i = 1,
                              ![p].pc = IF ex = <<>> THEN "record" ELSE "copy"]
    /\ UNCHANGED <<db, root, blobs, ws, now, last>>

\* One turn of the loop over expanded_outputs; _copy creates the directories
\* above its destination, the artifact directory included.
PutCopy(p) ==
    /\ Frame(p).pc = "copy"
    /\ LET h == Frame(p).hash
           out == Frame(p).ex[Frame(p).i]
       IN  root' = IF Exists(ws, out)
                   THEN [root EXCEPT ![h] =
                            [kind |-> "dir", tree |-> CopyOutput(root[h].tree, ws, out)]]
                   ELSE root
    /\ calls' = [calls EXCEPT ![p].i = @ + 1,
                              ![p].pc = IF Frame(p).i = Len(Frame(p).ex)
                                        THEN "record" ELSE "copy"]
    /\ UNCHANGED <<db, blobs, ws, now, last>>

\* self.record_to_cache(hash, code)?; Ok(())
PutRecord(p) ==
    /\ Frame(p).pc = "record"
    /\ db' = RecordToCache(db, Frame(p).hash, Frame(p).code, now, "none")
    /\ calls' = [calls EXCEPT ![p] =
          Finish(@, IF RecordFails(db, Frame(p).hash, "none") THEN "err" ELSE "ok")]
    /\ UNCHANGED <<root, blobs, ws, now, last>>

\* get: one statement of the index, the blob read inside it.
GetCall(p, hash) ==
    /\ Frame(p).pc = "idle" /\ Frame(p).n < CallsPerCaller
    /\ db' = IF db[hash].present THEN TouchRow(db, hash, now) ELSE db
    /\ calls' = [calls EXCEPT ![p] =
          [IdleFrame EXCEPT !.op = "get", !.hash = hash, !.status = "ok",
                            !.res = GetResult(db, blobs, hash, "none"),
                            !.seen = root[hash],
                            !.n = Frame(p).n + 1]]
    /\ UNCHANGED <<root, blobs, ws, now, last>>

\* remove_old_cache_records is called and runs the DELETE: the rows are gone,
\* the paths to remove are collected in the order of RETURNING.
SweepDelete(p) ==
    /\ Frame(p).pc = "idle" /\ Frame(p).n < CallsPerCaller
    /\ \E order \in Orders(StaleHashes(db, now)) :
          calls' = [calls EXCEPT ![p] =
              [IdleFrame EXCEPT !.op = "sweep", !.ex = order, !.i = 1,
                                !.pc = IF order = <<>> THEN "idle" ELSE "rm",
                                !.status = IF order = <<>> THEN "ok" ELSE "running",
                                !.n = Frame(p).n + 1]]
    /\ db' = DeleteStale(db, now)
    /\ UNCHANGED <<root, blobs, ws, now, last>>

\* One turn of remove_items(&outdated_cache).
SweepRemove(p) ==
    /\ Frame(p).pc = "rm"
    /\ LET i == Frame(p).i
           h == ItemHash(Frame(p).ex, i)
       IN  /\ root' = IF ItemIsDir(i) THEN RemoveItem(root, h) ELSE root
           /\ blobs' = IF ItemIsDir(i) THEN blobs ELSE [blobs EXCEPT ![h] = NoBlob]
           /\ calls' = [calls EXCEPT ![p] =
                  IF i = 2 * Len(Frame(p).ex) THEN Finish(@, "ok")
                  ELSE [@ EXCEPT !.i = i + 1]]
    /\ UNCHANGED <<db, ws, now, last>>

NextConc ==
    \/ \E p \in Callers, h \in Hashes, c \in Codes : PutRemove(p, h, "ok", << <<"out">> >>, c)
    \/ \E p \in Callers : PutCreate(p)
    \/ \E p \in Callers : PutWrite(p)
    \/ \E p \in Callers : PutExpand(p)
    \/ \E p \in Callers : PutCopy(p)
    \/ \E p \in Callers : PutRecord(p)
    \/ \E p \in Callers, h \in Hashes : GetCall(p, h)
    \/ \E p \in Callers : SweepDelete(p)
    \/ \E p \in Callers : SweepRemove(p)
    \/ Tick(TTL + 1)

\* The workspace holds the output of a task.
InitConc == InitWith([EmptyTree EXCEPT ![FX] = "v1"])

SpecConc == InitConc /\ [][NextConc]_vars

\* ===================================================================== claims
\* What get returns from a state without an I/O fault, written out.
Returned(h) ==
    IF db[h].present
    THEN [some |-> TRUE, code |-> db[h].code,
          terminal_output |-> IF blobs[h] = NoBlob THEN "" ELSE blobs[h],
          outputs_path |-> <<"cache", h>>]
    ELSE [some |-> FALSE, code |-> 0, terminal_output |-> "", outputs_path |-> <<>>]

\* C1: get(h) returns None when the index has no row for h; a put(h, t, outs,
\* c) that returns Ok leaves a row with code c and a blob with text t, which
\* the next get(h) returns together with outputs_path = <cache root>/h, and
\* the artifact directory <cache root>/h holds every declared output that
\* was in the workspace, at the same path with the same content.
C1_MissThenHit ==
    [][ /\ \A h \in Hashes :
              last'.op = "get" /\ GetF(h, "none") =>
                  /\ last'.status = "ok"
                  /\ last'.res = Returned(h)
                  /\ ~db[h].present => ~last'.res.some
        /\ \A h \in Hashes, t \in Texts, o \in OutputChoices, c \in Codes :
              last'.op = "put" /\ last'.status = "ok" /\ PutF(h, t, o, c, "none") =>
                  /\ db'[h].present /\ db'[h].code = c
                  /\ blobs'[h] = t
                  /\ root'[h].kind = "dir"
                  /\ \A i \in 1..Len(o), f \in FilePaths :
                        IsPrefix(o[i], f) /\ ws[f] # NoFile => root'[h].tree[f] = ws[f]
      ]_vars

\* A put returned Ok and its artifact directory holds a copied output, while
\* another file of the workspace was not declared and is not in it.
C1_Witness ==
    /\ last.op = "put" /\ last.status = "ok"
    /\ root[last.hash].tree[FX] = "v2"
    /\ ws[FY] # NoFile /\ root[last.hash].tree[FY] = NoFile

\* C2: put and apply_remote_cache_results on a hash that has a row return an
\* error and leave the index as it was: one row for the hash, with the exit
\* code the first call stored.
C2_DuplicateRejected ==
    [][ last'.op \in {"put", "apply"} /\ db[last'.hash].present =>
            /\ last'.status = "err"
            /\ db' = db
            /\ Cardinality({h \in Hashes : db'[h].present /\ h = last'.hash}) = 1
      ]_vars

\* A put on a recorded hash failed although it wrote its own terminal output.
C2_Witness ==
    /\ last.op = "put" /\ last.status = "err"
    /\ db[last.hash].present /\ db[last.hash].code = 0
    /\ blobs[last.hash] = "err" /\ root[last.hash].kind = "dir"

\* C6: after copy_files_from_cache returns Ok, every file of the artifact
\* directory under a declared output is in the workspace with the cached
\* content, and nothing else is left in the workspace under a declared
\* output that exists in the artifact directory.
C6_RestoreOverwrites ==
    [][ \A h \in Hashes, o \in OutputChoices :
            last'.op = "restore" /\ last'.status = "ok"
                /\ RestoreF(CachedResult(0, "", TaskDir(h)), o, "none") =>
                \A i \in 1..Len(o), f \in FilePaths :
                    /\ IsPrefix(o[i], f) /\ root[h].tree[f] # NoFile
                          => ws'[f] = root[h].tree[f]
                    /\ IsPrefix(o[i], f) /\ Exists(root[h].tree, o[i])
                          => ws'[f] = root[h].tree[f]
      ]_vars

\* A restore returned Ok, the workspace holds the cached content of out/x
\* and no out/y, which the artifact directory does not have.
C6_Witness ==
    /\ last.op = "restore" /\ last.status = "ok"
    /\ root[H1].kind = "dir" /\ root[H1].tree[FX] = "v1" /\ root[H1].tree[FY] = NoFile
    /\ ws[FX] = "v1" /\ ws[FY] = NoFile

\* C7: with a row for h, get(h) returns Some with the stored exit code
\* whatever the state of the blob and of the artifact directory, with an empty
\* terminal_output when the blob is missing or cannot be read; get returns
\* an error only when the index fails.
C7_GetToleratesMissingFiles ==
    [][ \A h \in Hashes :
          /\ \A x \in {"none", "read"} :
                last'.op = "get" /\ GetF(h, x) =>
                    /\ last'.status = "ok"
                    /\ db[h].present =>
                          /\ last'.res.some /\ last'.res.code = db[h].code
                          /\ (x = "read" \/ blobs[h] = NoBlob)
                                => last'.res.terminal_output = ""
          /\ \A x \in {"none", "read", "index"} :
                last'.op = "get" /\ last'.status = "err" /\ GetF(h, x) => x = "index"
      ]_vars

\* A hit with an empty terminal output for a hash that has no artifact
\* directory.
C7_Witness ==
    /\ last.op = "get" /\ last.status = "ok" /\ last.res.some
    /\ last.res.terminal_output = "" /\ last.res.code = 1
    /\ root[last.hash].kind = "none"

\* C3: after remove_old_cache_records returns Ok, every hash it evicted has
\* no row (get returns None), no artifact directory and no terminal output
\* blob.
C3_EvictionRemovesBothHalves ==
    last.op = "sweep" /\ last.status = "ok" =>
        \A h \in last.evicted :
            /\ ~db[h].present
            /\ Returned(h) = NoneResult
            /\ root[h].kind = "none"
            /\ blobs[h] = NoBlob

\* A sweep returned Ok having evicted both hashes.
C3_Witness ==
    last.op = "sweep" /\ last.status = "ok" /\ last.evicted = Hashes

\* C4: a get that hits sets accessed_at of the row to the current time and
\* leaves created_at; a sweep whose DELETE runs removes exactly the rows whose
\* accessed_at is more than 7 days before now, so a row created more than 7
\* days ago and read since is kept, and a row last read more than 7 days ago
\* is removed.
C4_EvictionByLastAccess ==
    [][ /\ \A h \in Hashes :
              last'.op = "get" /\ last'.hash = h /\ last'.res.some =>
                  /\ db'[h].accessed_at = now
                  /\ db'[h].created_at = db[h].created_at
        /\ \A x \in {"none", "remove"} :
              last'.op = "sweep" /\ SweepF(x) =>
                  \A h \in Hashes :
                      /\ db'[h].present <=>
                            db[h].present /\ ~(db[h].accessed_at < now - 7)
                      /\ db'[h].present => db'[h] = db[h]
                      /\ h \in last'.evicted <=>
                            db[h].present /\ db[h].accessed_at < now - 7
      ]_vars

\* A sweep evicted one hash and kept the other, which was created more than
\* 7 days ago and read since.
C4_Witness ==
    /\ last.op = "sweep" /\ last.evicted # {}
    /\ \E h \in Hashes :
          db[h].present /\ db[h].created_at < now - 7 /\ db[h].accessed_at > db[h].created_at

\* C5: without an I/O fault check_cache_fs_in_sync returns true exactly
\* when the number of rows equals the number of directories of the cache
\* root whose name is made of digits only.
C5_SyncCheck ==
    [][ last'.op = "check" /\ CheckF("none") =>
            /\ last'.status = "ok"
            /\ last'.sync <=>
                  Cardinality({h \in Hashes : db[h].present})
                      = Cardinality({n \in Names :
                            /\ root[n].kind = "dir"
                            /\ n # <<>>
                            /\ \A i \in DOMAIN n : n[i] \in Digits})
      ]_vars

\* The check returned false when the only directory without a row is the
\* stray one.
C5_Witness ==
    /\ last.op = "check" /\ last.status = "ok" /\ ~last.sync
    /\ root[StrayName].kind = "dir"
    /\ \A h \in Hashes : db[h].present <=> root[h].kind = "dir"

\* The check returned true on a cache that holds a row and its directory.
C5_WitnessInSync ==
    /\ last.op = "check" /\ last.status = "ok" /\ last.sync
    /\ root[StrayName].kind = "file"
    /\ \E h \in Hashes : db[h].present /\ root[h].kind = "dir"

\* C9: the sweep is best-effort. Once the DELETE has run and returned
\* hashes, the call returns Ok, and when the deletion of the directory or
\* blob of one of them fails, the files of every other one are deleted all
\* the same.
C9_SweepBestEffort ==
    last.op = "sweep" /\ last.evicted # {} =>
        /\ last.status = "ok"
        /\ Cardinality({h \in last.evicted :
               root[h].kind # "none" \/ blobs[h] # NoBlob}) <= 1

\* The same, for the files alone: a sweep leaves the files of at most one
\* hash it evicted.
C9_OthersDeleted ==
    last.op = "sweep" =>
        Cardinality({h \in last.evicted : root[h].kind # "none" \/ blobs[h] # NoBlob}) <= 1

\* C8: when the first calls of two callers are puts of the same hash, in
\* every interleaving exactly one of the two record steps succeeds, and the
\* index holds one row for the hash, with the exit code of the caller whose
\* record succeeded.
C8_OneRecordWins ==
    \A p, q \in Callers :
        /\ p # q
        /\ Frame(p).op = "put" /\ Frame(p).pc = "idle" /\ Frame(p).n = 1
        /\ Frame(q).op = "put" /\ Frame(q).pc = "idle" /\ Frame(q).n = 1
        /\ Frame(p).hash = Frame(q).hash
        => /\ Frame(p).status = "ok" <=> Frame(q).status = "err"
           /\ db[Frame(p).hash].present
           /\ Frame(p).status = "ok" => db[Frame(p).hash].code = Frame(p).code

\* Both puts of hash 1 returned: the one with exit code 1 Ok, the other,
\* with exit code 0, Err.
C8_Witness ==
    /\ Frame("a").op = "put" /\ Frame("a").pc = "idle" /\ Frame("a").n = 1
    /\ Frame("b").op = "put" /\ Frame("b").pc = "idle" /\ Frame("b").n = 1
    /\ Frame("a").hash = H1 /\ Frame("b").hash = H1
    /\ Frame("a").code = 0 /\ Frame("a").status = "err"
    /\ Frame("b").code = 1 /\ Frame("b").status = "ok"
    /\ db[H1].code = 1

\* C10: once every call has returned, every hash with a row has its artifact
\* directory and its terminal output blob, whatever the interleaving of the
\* sweep with put and get.
C10_EvictionKeepsLiveEntries ==
    (\A p \in Callers : Frame(p).pc = "idle") =>
        \A h \in Hashes :
            db[h].present => root[h].kind = "dir" /\ blobs[h] # NoBlob

\* C11: check_cache_fs_in_sync returns an error whenever the count of the
\* index, the listing of the cache root, or the reading of a directory entry
\* or of its file type fails: it never answers true or false then.
C11_CheckSurfacesErrors ==
    [][ \A x \in {"index", "read_dir", "entry"} :
            last'.op = "check" /\ CheckF(x) => last'.status = "err"
      ]_vars

\* The same for the answer: a check during which an entry could not be read
\* does not answer false on a cache whose rows and directories match.
C11_NoFalseNegative ==
    [][ last'.op = "check" /\ CheckF("entry") /\ last'.status = "ok" =>
            (SyncResult(db, root, {}) => last'.sync)
      ]_vars

\* C12: apply_remote_cache_results(h, result) on a hash without a row writes
\* result.terminal_output to the blob of h and inserts a row with result.code,
\* so the next get(h) returns that code and that text; no call of it, failed
\* or not, creates, wipes or fills an artifact directory.
C12_ApplyWritesBlobAndRow ==
    [][ /\ \A h \in Hashes, t \in Texts, c \in Codes :
              /\ last'.op = "apply" /\ last'.hash = h /\ ~db[h].present
              /\ ApplyF(h, CachedResult(c, t, TaskDir(h)), "none")
              => /\ last'.status = "ok"
                 /\ blobs'[h] = t
                 /\ db'[h].present /\ db'[h].code = c
                 /\ Returned(h)' = [some |-> TRUE, code |-> c, terminal_output |-> t,
                                    outputs_path |-> <<"cache", h>>]
        /\ last'.op = "apply" => root' = root
      ]_vars

\* A hydration returned Ok on a hash whose artifact directory, left by a put
\* that failed, still holds what that put copied.
C12_Witness ==
    /\ last.op = "apply" /\ last.status = "ok"
    /\ root[last.hash].kind = "dir" /\ root[last.hash].tree[FX] # NoFile
    /\ blobs[last.hash] = "err" /\ db[last.hash].code = 1

C14_FailedPutNotRolledBack ==
    [][ \A h \in Hashes :
            last'.op = "put" /\ last'.hash = h /\ db[h].present =>
            \A o \in OutputChoices :
            root' = PutRoot(root, ws, h, o, "none", 0, {}) =>
            \A t \in Texts, c \in Codes :
                PutF(h, t, o, c, "none")
                => /\ last'.status = "err"
                   /\ blobs'[h] = t
                   /\ root'[h].kind = "dir"
                   /\ \A f \in FilePaths :
                         root'[h].tree[f] =
                             IF \E i \in 1..Len(o) : IsPrefix(o[i], f) THEN ws[f] ELSE NoFile
                   /\ db'[h] = db[h]
                   /\ Returned(h)' = [some |-> TRUE, code |-> db[h].code,
                                      terminal_output |-> t, outputs_path |-> <<"cache", h>>]
      ]_vars

\* A put on a recorded hash returned an error; the row has exit code 1, the
\* blob the text "ok", and the directory the one file the workspace holds.
C14_Witness ==
    /\ last.op = "put" /\ last.status = "err"
    /\ db[last.hash].present /\ db[last.hash].code = 1
    /\ blobs[last.hash] = "ok"
    /\ ws[FX] = "v2" /\ ws[FY] = NoFile
    /\ root[last.hash].kind = "dir"
    /\ root[last.hash].tree[FX] = "v2" /\ root[last.hash].tree[FY] = NoFile

\* C15: no lock covers put. Its first statement removes the artifact
\* directory of h and leaves the row of h, and a get(h) that runs at any
\* point of it hits as long as the row is there, with the stored exit code,
\* whatever is at outputs_path at that moment.
C15_GetDuringPut ==
    [][ /\ \A p \in Callers, h \in Hashes, c \in Codes :
              PutRemove(p, h, "ok", << <<"out">> >>, c) =>
                  /\ root'[h] = NoEntry
                  /\ db' = db /\ blobs' = blobs
        /\ \A p \in Callers, h \in Hashes :
              GetCall(p, h) /\ db[h].present =>
                  /\ calls'[p].res.some /\ calls'[p].res.code = db[h].code
                  /\ calls'[p].seen = root[h]
      ]_vars

\* Caller a's only call, get(1), returned a hit when no artifact directory
\* was at outputs_path: caller b, whose first put recorded the hash, is in its
\* second put of it, past the wipe and before the record.
C15_Witness ==
    /\ Frame("a").n = 1 /\ Frame("a").op = "get" /\ Frame("a").hash = H1
    /\ Frame("a").res.some /\ Frame("a").seen = NoEntry
    /\ Frame("b").n = 2 /\ Frame("b").op = "put" /\ Frame("b").hash = H1
    /\ Frame("b").pc \in {"create", "write", "expand", "copy", "record"}

\* The same with the directory there and empty.
C15_WitnessEmpty ==
    /\ Frame("a").n = 1 /\ Frame("a").op = "get" /\ Frame("a").hash = H1
    /\ Frame("a").res.some /\ Frame("a").seen = EmptyDir
    /\ Frame("b").n = 2 /\ Frame("b").op = "put" /\ Frame("b").hash = H1
    /\ Frame("b").pc \in {"create", "write", "expand", "copy", "record"}

\* C16: remove_old_cache_records deletes the rows of the stale hashes before
\* any of their files. The step that runs the DELETE leaves the filesystem
\* as it is and the hashes it collected without a row, so that get misses on
\* them; the steps that remove the files leave the index as it is; and a get
\* on a hash without a row misses whatever is still on disk.
C16_RowsBeforeFiles ==
    [][ /\ \A p \in Callers :
              SweepDelete(p) =>
                  /\ root' = root /\ blobs' = blobs
                  /\ \A h \in Hashes :
                        (\E j \in 1..Len(calls'[p].ex) : calls'[p].ex[j] = h)
                            <=> (db[h].present /\ ~db'[h].present)
                  /\ \A h \in Hashes :
                        db[h].present /\ ~db'[h].present => Returned(h)' = NoneResult
        /\ \A p \in Callers : SweepRemove(p) => db' = db
        /\ \A p \in Callers, h \in Hashes :
              GetCall(p, h) /\ ~db[h].present => ~calls'[p].res.some
      ]_vars

\* Caller b recorded hash 1 and, 8 days later, its get(1) missed although the
\* artifact directory and the blob were on disk: caller a's sweep had deleted
\* the row and not yet removed a file.
C16_Witness ==
    /\ Frame("a").n = 1 /\ Frame("a").op = "sweep" /\ Frame("a").pc = "rm"
    /\ Frame("a").i = 1 /\ Frame("a").ex = <<H1>>
    /\ Frame("b").n = 2 /\ Frame("b").op = "get" /\ Frame("b").hash = H1
    /\ ~Frame("b").res.some /\ Frame("b").seen.kind = "dir"
    /\ root[H1].kind = "dir" /\ blobs[H1] # NoBlob

C18_PutReplacesWholesale ==
    LET Declared(o, f) == \E i \in 1..Len(o) : IsPrefix(o[i], f)
        Replaced(o) == [f \in FilePaths |-> IF Declared(o, f) THEN ws[f] ELSE NoFile]
    IN  \* what the statements of put up to the end of its loop make of the
        \* cache root, from every state of the cache and the workspace
        /\ \A h \in Hashes, o \in OutputChoices, x \in {"none", "index"} :
              PutRoot(root, ws, h, o, x, 0, {})[h]
                  = [kind |-> "dir", tree |-> Replaced(o)]
        \* whether put returns Ok does not depend on the directory
        /\ \A h \in Hashes : PutStatus(db, h, "none") = "ok" <=> ~db[h].present
        \* what a put that returned Ok has left
        /\ last.op = "put" /\ last.status = "ok" =>
              \E o \in OutputChoices :
                  root[last.hash] = [kind |-> "dir", tree |-> Replaced(o)]

\* A put returned Ok on day 8; its artifact directory holds the one file
\* the workspace has under the declared output.
C18_Witness ==
    /\ last.op = "put" /\ last.status = "ok"
    /\ now = 8 /\ db[last.hash].created_at = 8
    /\ ws[FX] = "v2" /\ ws[FY] = NoFile
    /\ root[last.hash] = [kind |-> "dir", tree |-> [EmptyTree EXCEPT ![FX] = "v2"]]

\* C19: get(h), put(h, ...) and apply_remote_cache_results(h, ...), whether
\* they return Ok or Err and wherever an I/O fault stops them, leave the row,
\* the artifact directory and the terminal output blob of every other hash
\* as they were.
C19_OtherHashesUntouched ==
    [][ last'.op \in {"get", "put", "apply"} =>
            \A g \in Hashes \ {last'.hash} :
                /\ db'[g] = db[g]
                /\ root'[g] = root[g]
                /\ blobs'[g] = blobs[g]
      ]_vars

\* Hash 1 was put on day 7 while hash 42, recorded on day 0 and not read
\* since, has its row, its directory and its blob.
C19_Witness ==
    /\ last.op = "put" /\ last.status = "ok" /\ last.hash = H1
    /\ now = 7 /\ db[H1].created_at = 7
    /\ db[H2].present /\ db[H2].created_at = 0 /\ db[H2].accessed_at = 0
    /\ root[H2].kind = "dir" /\ blobs[H2] = "ok"

\* C20: get(h) changes nothing when h has no row and nothing but accessed_at
\* of the row of h when it has one: exit codes, creation times, the set of
\* rows, the artifact directories, the blobs and the workspace stay as they
\* were. check_cache_fs_in_sync changes neither the index nor the
\* filesystem, whatever it answers.
C20_ReadOnly ==
    [][ /\ last'.op = "get" =>
              /\ root' = root /\ blobs' = blobs /\ ws' = ws
              /\ ~db[last'.hash].present => db' = db
              /\ \A g \in Hashes :
                    /\ db'[g].present = db[g].present
                    /\ db'[g].code = db[g].code
                    /\ db'[g].created_at = db[g].created_at
                    /\ g # last'.hash => db'[g].accessed_at = db[g].accessed_at
        /\ last'.op = "check" =>
              db' = db /\ root' = root /\ blobs' = blobs /\ ws' = ws
      ]_vars

\* A get on day 7 hit a row created on day 0: the row has the access time
\* 7 and the creation time 0.
C20_Witness ==
    /\ last.op = "get" /\ last.status = "ok" /\ last.res.some
    /\ now = 7
    /\ db[last.hash].created_at = 0 /\ db[last.hash].accessed_at = 7

\* The check answered false and left the row without directory that it
\* found.
C20_WitnessCheck ==
    /\ last.op = "check" /\ last.status = "ok" /\ ~last.sync
    /\ \E h \in Hashes : db[h].present /\ root[h].kind = "none"

====
